---- MODULE Spec2Model ----
(***************************************************************************)
(* Verification model of the Google Photos Takeout metadata processor      *)
(* (takeout_processor.py): sidecar resolution, the batch / individual      *)
(* embedding protocol, verification and outcome routing.                   *)
(*                                                                         *)
(* File names are sequences of atoms.  The atoms are chosen so that every  *)
(* string has one decomposition and every occurrence of an edit marker in  *)
(* the string is an occurrence of the marker's atoms in the sequence, so   *)
(* Python's `in`, `replace` and `lower` are exact on them.                 *)
(***************************************************************************)
EXTENDS Integers, Sequences, FiniteSets, TLC

VARIABLES
    \* --- inputs and result of one find_json_metadata call (SpecResolve)
    media_file,     \* find_json_metadata: name of the media file looked up
    dir_files,      \* names of the files that exist in its directory
    json_path,      \* the returned sidecar name, None, or Pending
    base_name,      \* result of one _get_original_name call, or Pending
    analysis,       \* result of one analyze_single_file_mapping call
    \* --- the processing pipeline (Spec)
    pc,             \* position of the run
    tool_present,   \* environment: `exiftool -ver` works
    input_kind,     \* environment: what determine_input_type / the scan find
    dry_run,
    paths,          \* the media files the phases operate on, in order
    sidecars,       \* sidecar name -> content, the sidecars on disk
    on_disk,        \* media file names that exist on disk
    stats,          \* self.stats
    idx,            \* loop index inside the current phase
    batch_num,      \* number of batches started
    batch_mode,     \* "none" | "verify" | "individual": what the batch is in
    success_count, unmapped_files, successfully_processed_files,
    batch_success, batch_unmapped, batch_processed,
    write_log,      \* writing tool invocations issued, in order
    verify_log,     \* verifier calls and their results, in order
    copied_out, copied_unmapped,   \* files copied to output / output/unmapped
    abort_cause,    \* why the run stopped without reaching the report
    \* --- copying one file to the output (SpecRoute)
    asset_path,     \* absolute path of the file, a sequence of components
    disk_dirs,      \* the 'Google Photos' directories that exist on disk
    bucket,         \* "processed" | "unmapped": the list the file is in
    google_photos_dirs,  \* what find_google_photos_dirs returned, in order
    dest_path,      \* path below the output directory, or why there is none
    \* --- _extract_parallel (SpecExtract)
    zip_state,      \* archive -> "new" | "queued" | "running" | "ok" | "failed"
    futures,        \* archives submitted to the executor, in order
    collected,      \* futures whose result() the coordinator has taken
    \* --- update_status and the observer's callbacks (SpecProgress)
    status_point,   \* index of the update_status call the run is at
    in_callback,    \* "none" | "status" | "progress": the callback running
    observer,       \* the callbacks set on the processor and how they behave
    progress_log,   \* the fractions passed to progress_callback, in order
    \* --- one _is_edited_photo call (SpecEdited)
    edited,         \* its result: "pending" | "yes" | "no"
    \* --- ProcessingVerifier.verify_timestamp_accuracy (SpecAccuracy)
    json_timestamp, \* photoTakenTime.timestamp of the sidecar, in seconds
    embedded_date,  \* DateTimeOriginal of the file, as seconds on its clock
    utc_offset,     \* environment: the local zone's offset from UTC, seconds
    accurate,       \* what the call returned: "pending" | "yes" | "no"
    verification_results,  \* self.verification_results
    \* --- the window of TakeoutProcessorGUI (SpecGui)
    zip_files,      \* the selection: "none" | "files" | "folder"
    output_dir,     \* an output directory is selected
    process_button, \* state of the Process button: "disabled" | "normal"
    threads,        \* background runs of process_photos that are active
    after_queue,    \* root.after callbacks waiting for the main loop
    \* --- TakeoutMappingAnalyzer.analyze_file_mappings (SpecMappings)
    media_files,    \* the media files still to analyze, in order
    json_set,       \* the JSON files found
    analysis_results  \* self.analysis_results

callVars == <<media_file, dir_files, json_path, base_name, analysis>>
routeVars == <<asset_path, disk_dirs, bucket, google_photos_dirs, dest_path>>
extractVars == <<zip_state, futures, collected>>
progressVars == <<status_point, in_callback, observer, progress_log>>
accuracyVars == <<json_timestamp, embedded_date, utc_offset, accurate,
                  verification_results>>
guiVars == <<zip_files, output_dir, process_button, threads, after_queue>>
mappingVars == <<media_files, json_set, analysis_results>>
toolVars == <<edited, accuracyVars, guiVars, mappingVars>>
auxVars == <<routeVars, extractVars, progressVars, toolVars>>
pipeVars == <<pc, tool_present, input_kind, dry_run, paths, sidecars, on_disk,
              stats, idx, batch_num, batch_mode, success_count, unmapped_files,
              successfully_processed_files, batch_success, batch_unmapped,
              batch_processed, write_log, verify_log, copied_out,
              copied_unmapped, abort_cause>>
vars == <<callVars, pipeVars, auxVars>>

-----------------------------------------------------------------------------
(* Bounds *)

\* atoms between the stem and the extension of a generated file name
MaxMarkerAtoms == 3
\* files in the directory of a find_json_metadata call
MaxDirFiles == 2

-----------------------------------------------------------------------------
(* Strings as atom sequences *)

None == <<>>
Pending == <<"?">>

\* str.lower() on one atom
LowerAtom(a) ==
    CASE a = "EDITED" -> "edited"
      [] a = "-EFFECTS" -> "-effects"
      [] OTHER -> a

Lower(s) == [i \in 1..Len(s) |-> LowerAtom(s[i])]

\* `p in s`
Contains(s, p) ==
    \E i \in 1..(Len(s) - Len(p) + 1) : SubSeq(s, i, i + Len(p) - 1) = p

\* position of the first occurrence of p in s, 0 when there is none
FirstIndex(s, p) ==
    IF Contains(s, p)
    THEN CHOOSE i \in 1..(Len(s) - Len(p) + 1) :
            /\ SubSeq(s, i, i + Len(p) - 1) = p
            /\ \A j \in 1..(i - 1) : SubSeq(s, j, j + Len(p) - 1) # p
    ELSE 0

\* s.replace(p, ''): every non-overlapping occurrence, left to right
RECURSIVE Replace(_, _)
Replace(s, p) ==
    IF ~Contains(s, p) THEN s
    ELSE LET i == FirstIndex(s, p)
         IN SubSeq(s, 1, i - 1) \o Replace(SubSeq(s, i + Len(p), Len(s)), p)

-----------------------------------------------------------------------------
(* Pattern matching on file names *)

\* the sidecar suffixes of find_json_metadata, in order of preference
Suffixes == << <<".supplemental-metadata", ".json">>,
               <<".supplemental-metada", ".json">>,
               <<".s", ".json">>,
               <<".json">> >>

\* the markers of _is_edited_photo
EditedMarkers == { <<"-", "edited">>,
                   <<"-effects", "-", "edited">>,
                   <<"_", "edited">>,
                   <<"_1", "-", "edited">> }

\* patterns_to_remove of _get_original_name, in the order tried
PatternsToRemove == << <<"-EFFECTS", "-", "edited">>,
                       <<"-", "edited">>,
                       <<"_1", "-", "edited">>,
                       <<"_", "edited">> >>

\* _is_edited_photo: any marker in the lower-cased name
IsEditedPhoto(filename) == \E m \in EditedMarkers : Contains(Lower(filename), m)

\* _get_original_name: the first pattern of the list that occurs is removed
\* everywhere; None when no pattern occurs
GetOriginalName(filename) ==
    IF \E k \in 1..Len(PatternsToRemove) : Contains(filename, PatternsToRemove[k])
    THEN LET k == CHOOSE k \in 1..Len(PatternsToRemove) :
                    /\ Contains(filename, PatternsToRemove[k])
                    /\ \A j \in 1..(k - 1) :
                            ~Contains(filename, PatternsToRemove[j])
         IN Replace(filename, PatternsToRemove[k])
    ELSE None

\* the first existing path among base + suffix, in suffix order; None if none
FirstExisting(base, files) ==
    IF \E k \in 1..Len(Suffixes) : (base \o Suffixes[k]) \in files
    THEN LET k == CHOOSE k \in 1..Len(Suffixes) :
                    /\ (base \o Suffixes[k]) \in files
                    /\ \A j \in 1..(k - 1) : (base \o Suffixes[j]) \notin files
         IN base \o Suffixes[k]
    ELSE None

\* variant: the original's sidecar is preferred to the asset's own
FindJsonInheritedFirst(file, files) ==
    LET original_name == GetOriginalName(file)
        inherited == IF IsEditedPhoto(file) /\ original_name # None
                     THEN FirstExisting(original_name, files) ELSE None
    IN IF inherited # None THEN inherited ELSE FirstExisting(file, files)

\* find_json_metadata: the direct patterns first, then, for an edited photo
\* whose original name is known, the patterns of the original
FindJsonMetadata(file, files) ==
    LET direct == FirstExisting(file, files)
        original_name == GetOriginalName(file)
    IN IF direct # None THEN direct
       ELSE IF IsEditedPhoto(file) /\ original_name # None
            THEN FirstExisting(original_name, files)
            ELSE None

-----------------------------------------------------------------------------
(* Sidecar contents and the verifier *)

\* a sidecar file's content: unparsable text, or a JSON object of which the
\* model keeps whether it has any key and the three fields the verifier reads
FieldStates == {"missing", "empty", "present"}
LatStates == {"missing", "zero", "nonzero"}
Contents == [valid : BOOLEAN, empty : BOOLEAN, timestamp : FieldStates,
             latitude : LatStates, description : FieldStates]
EmptyDict == [valid |-> TRUE, empty |-> TRUE, timestamp |-> "missing",
              latitude |-> "missing", description |-> "missing"]
Malformed == [valid |-> FALSE, empty |-> FALSE, timestamp |-> "missing",
              latitude |-> "missing", description |-> "missing"]
\* the contents a file can have: an empty object has no field
WellFormedContents ==
    {c \in Contents :
        /\ c.empty => c = EmptyDict
        /\ ~c.valid => c = Malformed}

\* variant: an unparsable file is read as a record with every field set
LoadJsonKeepsDefaults(content) ==
    IF content.valid THEN content
    ELSE [valid |-> TRUE, empty |-> FALSE, timestamp |-> "present",
          latitude |-> "nonzero", description |-> "present"]

\* _load_json_safely: the parsed object, {} when reading or parsing raises
LoadJsonSafely(content) == IF content.valid THEN content ELSE EmptyDict

\* what the read-only tool query returns for an asset: the exit status and
\* which of the three queried fields come back with a value
ExifAnswers ==
    {a \in [rc : {0, 1}, DateTimeOriginal : BOOLEAN, GPSLatitude : BOOLEAN,
            Description : BOOLEAN] :
        a.rc # 0 => ~a.DateTimeOriginal /\ ~a.GPSLatitude /\ ~a.Description}

NotVerified(matched) ==
    [verified |-> FALSE, json_matched |-> matched, date_restored |-> 0,
     gps_restored |-> 0]

\* variant: a missing latitude is not the default 0, so it counts as non-zero
VerifyLatitudeDefaultRestored(file, disk, answer) ==
    LET json_file == FindJsonMetadata(file, DOMAIN disk)
        json_data == LoadJsonSafely(disk[json_file])
        date == json_data.timestamp = "present" /\ answer.DateTimeOriginal
        gps == json_data.latitude # "zero" /\ answer.GPSLatitude
        desc == json_data.description = "present" /\ answer.Description
    IN IF json_file = None THEN NotVerified(0)
       ELSE IF json_data.empty THEN NotVerified(1)
       ELSE IF answer.rc # 0 THEN NotVerified(1)
       ELSE [verified |-> date \/ gps \/ desc, json_matched |-> 1,
             date_restored |-> IF date THEN 1 ELSE 0,
             gps_restored |-> IF gps THEN 1 ELSE 0]

\* _verify_file_processing(file_path) with the tool answering `answer`:
\* the returned flag and the increments of the three counters
VerifyFileProcessing(file, disk, answer) ==
    LET json_file == FindJsonMetadata(file, DOMAIN disk)
        json_data == LoadJsonSafely(disk[json_file])
        date == json_data.timestamp = "present" /\ answer.DateTimeOriginal
        gps == json_data.latitude = "nonzero" /\ answer.GPSLatitude
        desc == json_data.description = "present" /\ answer.Description
    IN IF json_file = None THEN NotVerified(0)
       ELSE IF json_data.empty THEN NotVerified(1)
       ELSE IF answer.rc # 0 THEN NotVerified(1)
       ELSE [verified |-> date \/ gps \/ desc, json_matched |-> 1,
             date_restored |-> IF date THEN 1 ELSE 0,
             gps_restored |-> IF gps THEN 1 ELSE 0]

-----------------------------------------------------------------------------
(* The run: construction, process(), process_with_exiftool *)

\* media files in the export, in discovery order
NumFiles == 3
\* batch_size of process_with_exiftool (50 in the program, scaled down)
BatchSize == 2

Catalogue == << <<"a", ".jpg">>, <<"a", "-", "edited", ".jpg">>,
                <<"VID_20210619_125530", ".mp4">>,
                <<"b", "_", "edited", ".mp4">>, <<"c", ".mp4">> >>
MediaFiles ==
    SubSeq(Catalogue, 1, IF NumFiles < Len(Catalogue) THEN NumFiles
                         ELSE Len(Catalogue))

\* the sidecars an export may hold for these files: the plain ".json" one of
\* every file that is not an edited variant
SidecarUniverse ==
    {MediaFiles[i] \o <<".json">> : i \in {j \in 1..Len(MediaFiles) :
                                            ~IsEditedPhoto(MediaFiles[j])}}

\* the contents drawn for them
DateGps == [valid |-> TRUE, empty |-> FALSE, timestamp |-> "present",
            latitude |-> "nonzero", description |-> "missing"]
PipelineContents == {Malformed, DateGps}

\* the tool's answers drawn for a verification query during a run
PipelineAnswers == {a \in ExifAnswers : ~a.Description}

InitialStats ==
    [total_files |-> 0, processed_files |-> 0, json_matched |-> 0,
     date_restored |-> 0, gps_restored |-> 0, extensions_fixed |-> 0,
     live_photos_paired |-> 0, zip_files_extracted |-> 0, errors |-> <<>>]

Range(s) == {s[i] : i \in 1..Len(s)}
Min(a, b) == IF a < b THEN a ELSE b

\* Path.with_suffix
WithSuffix(file, ext) == SubSeq(file, 1, Len(file) - 1) \o <<ext>>

\* what detect_file_type_mismatch can return for a file: None, or the actual
\* type when the extension is one of the keys of `mismatches`
Mismatches(file) ==
    IF file[Len(file)] = ".jpg" THEN {".mp4", ".png"}
    ELSE IF file[Len(file)] = ".png" THEN {".jpeg"}
    ELSE {}

\* variant: the number of full batches only
TotalBatchesFloor == Len(paths) \div BatchSize

\* total_batches = (len(media_files) + batch_size - 1) // batch_size
TotalBatches == (Len(paths) + BatchSize - 1) \div BatchSize
\* `result` of analyze_single_file_mapping: the two fields that say which
\* metadata file was mapped to the media file and by which step
NoAnalysis == [json_file |-> None, mapping_pattern |-> "idle"]
PendingAnalysis == [json_file |-> Pending, mapping_pattern |-> "pending"]

CallsIdle ==
    /\ media_file = None
    /\ dir_files = {}
    /\ json_path = None
    /\ base_name = None
    /\ analysis = NoAnalysis

\* nothing is being copied or extracted and no callback is running
RouteIdle ==
    /\ asset_path = None
    /\ disk_dirs = {}
    /\ bucket = "none"
    /\ google_photos_dirs = <<>>
    /\ dest_path = None
ExtractIdle ==
    /\ zip_state = <<>>
    /\ futures = <<>>
    /\ collected = 0
\* status_callback = None, progress_callback = None
NoObserver == [status_callback |-> FALSE, progress_callback |-> FALSE,
               stalls |-> FALSE, returns |-> 0]
ProgressIdle ==
    /\ status_point = 0
    /\ in_callback = "none"
    /\ observer = NoObserver
    /\ progress_log = <<>>
\* no verifier, window or analyzer exists
NoResults == [files_with_correct_dates |-> 0, timestamp_accuracy_issues |-> 0]
AccuracyIdle ==
    /\ json_timestamp = 0
    /\ embedded_date = 0
    /\ utc_offset = 0
    /\ accurate = "idle"
    /\ verification_results = NoResults
GuiIdle ==
    /\ zip_files = "none"
    /\ output_dir = FALSE
    /\ process_button = "none"
    /\ threads = 0
    /\ after_queue = <<>>
NoMappings == [total_media_files |-> 0, direct_matches |-> 0,
               edited_photos |-> 0, edited_with_original_json |-> 0,
               photos_without_json |-> 0, direct_match |-> 0,
               edited_inherits_from_original |-> 0,
               alternative_pattern |-> 0, no_json |-> 0]
MappingIdle ==
    /\ media_files = <<>>
    /\ json_set = {}
    /\ analysis_results = NoMappings
ToolsIdle == edited = "idle" /\ AccuracyIdle /\ GuiIdle /\ MappingIdle
AuxIdle == RouteIdle /\ ExtractIdle /\ ProgressIdle /\ ToolsIdle

\* the state before GoogleTakeoutProcessor(...) is called
PipeInit ==
    /\ pc = "init"
    /\ tool_present \in BOOLEAN
    /\ input_kind \in {"ok", "invalid", "no_google_photos"}
    /\ dry_run \in BOOLEAN
    /\ paths = <<>>
    /\ \E present \in SUBSET SidecarUniverse :
            sidecars \in [present -> PipelineContents]
    /\ on_disk = Range(MediaFiles)
    /\ stats = InitialStats
    /\ idx = 0
    /\ batch_num = 0
    /\ batch_mode = "none"
    /\ success_count = 0
    /\ unmapped_files = <<>>
    /\ successfully_processed_files = <<>>
    /\ batch_success = 0
    /\ batch_unmapped = <<>>
    /\ batch_processed = <<>>
    /\ write_log = <<>>
    /\ verify_log = <<>>
    /\ copied_out = {}
    /\ copied_unmapped = {}
    /\ abort_cause = "none"

Init == PipeInit /\ CallsIdle /\ AuxIdle

\* variant: validate_environment does not raise when the tool is missing
ConstructIgnoresMissingTool ==
    /\ pc = "init"
    /\ pc' = "constructed"
    /\ UNCHANGED <<tool_present, input_kind, dry_run, paths, sidecars, on_disk,
                   stats, idx, batch_num, batch_mode, success_count,
                   unmapped_files, successfully_processed_files, batch_success,
                   batch_unmapped, batch_processed, write_log, verify_log,
                   copied_out, copied_unmapped, abort_cause, callVars,
                   auxVars>>

\* __init__: validate_environment raises RuntimeError when the tool is missing
Construct ==
    /\ pc = "init"
    /\ IF tool_present
       THEN pc' = "constructed" /\ abort_cause' = abort_cause
       ELSE pc' = "fatal" /\ abort_cause' = "tool_missing"
    /\ UNCHANGED <<tool_present, input_kind, dry_run, paths, sidecars, on_disk,
                   stats, idx, batch_num, batch_mode, success_count,
                   unmapped_files, successfully_processed_files, batch_success,
                   batch_unmapped, batch_processed, write_log, verify_log,
                   copied_out, copied_unmapped, callVars,
                   auxVars>>

\* process(), phases 1 and 2: determine_input_type and the scan for media
\* files; both raise ValueError, which process() turns into `return False`
Discover ==
    /\ pc = "constructed"
    /\ IF input_kind = "ok"
       THEN /\ paths' = MediaFiles
            /\ stats' = [stats EXCEPT !.total_files = Len(MediaFiles)]
            /\ pc' = "fix_extensions"
            /\ idx' = 1
            /\ abort_cause' = abort_cause
       ELSE /\ pc' = "failed"
            /\ abort_cause' = input_kind
            /\ UNCHANGED <<paths, stats, idx>>
    /\ UNCHANGED <<tool_present, input_kind, dry_run, sidecars, on_disk,
                   batch_num, batch_mode, success_count, unmapped_files,
                   successfully_processed_files, batch_success, batch_unmapped,
                   batch_processed, write_log, verify_log, copied_out,
                   copied_unmapped, callVars,
                   auxVars>>

\* fix_file_extensions, one file of the loop.  shutil.move is the one call of
\* the loop that is not guarded: when it raises, process() returns False
FixExtension ==
    /\ pc = "fix_extensions"
    /\ idx <= Len(paths)
    /\ \E correct_type \in Mismatches(paths[idx]) \cup {"none"},
          move_ok \in BOOLEAN :
         LET file_path == paths[idx]
             new_path == WithSuffix(file_path, correct_type)
         IN IF correct_type = "none"
            THEN /\ move_ok
                 /\ idx' = idx + 1
                 /\ UNCHANGED <<paths, on_disk, stats, pc, abort_cause>>
            ELSE IF dry_run \/ move_ok
            THEN /\ dry_run => move_ok
                 /\ on_disk' = IF dry_run THEN on_disk
                               ELSE (on_disk \ {file_path}) \cup {new_path}
                 /\ paths' = [paths EXCEPT ![idx] = new_path]
                 /\ stats' = [stats EXCEPT !.extensions_fixed = @ + 1]
                 /\ idx' = idx + 1
                 /\ UNCHANGED <<pc, abort_cause>>
            ELSE /\ pc' = "failed"
                 /\ abort_cause' = "move_failed"
                 /\ UNCHANGED <<paths, on_disk, stats, idx>>
    /\ UNCHANGED <<tool_present, input_kind, dry_run, sidecars, batch_num,
                   batch_mode, success_count, unmapped_files,
                   successfully_processed_files, batch_success, batch_unmapped,
                   batch_processed, write_log, verify_log, copied_out,
                   copied_unmapped, callVars,
                   auxVars>>

\* the end of fix_file_extensions, identify_live_photos (no .heic file in the
\* catalogue, so nothing is paired) and the entry of process_with_exiftool
EnterProcessing ==
    /\ pc = "fix_extensions"
    /\ idx > Len(paths)
    /\ pc' = "batches"
    /\ idx' = 0
    /\ UNCHANGED <<tool_present, input_kind, dry_run, paths, sidecars, on_disk,
                   stats, batch_num, batch_mode, success_count, unmapped_files,
                   successfully_processed_files, batch_success, batch_unmapped,
                   batch_processed, write_log, verify_log, copied_out,
                   copied_unmapped, abort_cause, callVars,
                   auxVars>>

\* how a writing invocation of the tool can end
BatchOutcomes == {"ok", "nonzero", "timeout", "error"}
IndividualOutcomes == {"ok", "nonzero", "timeout"}

\* variant: a batch starts at the last file of the batch before it
BatchOfOverlapping(n) ==
    SubSeq(paths, IF n = 1 THEN 1 ELSE (n - 1) * BatchSize,
           Min(n * BatchSize, Len(paths)))

\* batch = media_files[start_idx:end_idx]
BatchOf(n) == SubSeq(paths, (n - 1) * BatchSize + 1,
                     Min(n * BatchSize, Len(paths)))

\* the files of a batch for which find_json_metadata finds a sidecar
Matched(batch) ==
    SelectSeq(batch, LAMBDA f : FindJsonMetadata(f, DOMAIN sidecars) # None)
Unmatched(batch) ==
    SelectSeq(batch, LAMBDA f : FindJsonMetadata(f, DOMAIN sidecars) = None)
LoadedFor(f) == LoadJsonSafely(sidecars[FindJsonMetadata(f, DOMAIN sidecars)])

\* process_with_exiftool, one iteration of the batch loop in dry-run mode
DryRunBatch ==
    /\ pc = "batches"
    /\ dry_run
    /\ batch_mode = "none"
    /\ batch_num < TotalBatches
    /\ LET batch == BatchOf(batch_num + 1)
           matched == Matched(batch)
       IN /\ batch_num' = batch_num + 1
          /\ success_count' = success_count + Len(batch)
          /\ successfully_processed_files' =
                successfully_processed_files \o matched
          /\ unmapped_files' = unmapped_files \o Unmatched(batch)
          /\ stats' = [stats EXCEPT
                !.json_matched = @ + Len(matched),
                !.date_restored = @ + Len(SelectSeq(matched,
                    LAMBDA f : LoadedFor(f).timestamp = "present")),
                !.gps_restored = @ + Len(SelectSeq(matched,
                    LAMBDA f : LoadedFor(f).latitude = "nonzero"))]
    /\ UNCHANGED <<pc, tool_present, input_kind, dry_run, paths, sidecars,
                   on_disk, idx, batch_mode, batch_success, batch_unmapped,
                   batch_processed, write_log, verify_log, copied_out,
                   copied_unmapped, abort_cause, callVars,
                   auxVars>>

\* variant: a timed-out batch is verified as if it had exited 0
ModeAfterBatchTimeoutVerifies(outcome) ==
    IF outcome \in {"ok", "timeout"} THEN "verify" ELSE "individual"

\* what follows the batch invocation: the verification loop after exit status
\* 0, _process_files_individually after a non-zero status, a timeout or any
\* other exception
ModeAfterBatch(outcome) == IF outcome = "ok" THEN "verify" ELSE "individual"

\* the files named on the command line of the batch invocation
BatchCommandFiles(batch) == batch

\* _process_batch_with_verification up to the result of subprocess.run: one
\* writing invocation for the whole batch; anything but exit status 0 sends
\* the batch to _process_files_individually
StartBatch ==
    /\ pc = "batches"
    /\ ~dry_run
    /\ batch_mode = "none"
    /\ batch_num < TotalBatches
    /\ \E outcome \in BatchOutcomes :
         /\ batch_num' = batch_num + 1
         /\ write_log' = Append(write_log,
                [mode |-> "batch", batch |-> batch_num + 1,
                 files |-> BatchCommandFiles(BatchOf(batch_num + 1)),
                 outcome |-> outcome])
         /\ batch_mode' = ModeAfterBatch(outcome)
    /\ idx' = batch_num * BatchSize + 1
    /\ batch_success' = 0
    /\ batch_unmapped' = <<>>
    /\ batch_processed' = <<>>
    /\ UNCHANGED <<pc, tool_present, input_kind, dry_run, paths, sidecars,
                   on_disk, stats, success_count, unmapped_files,
                   successfully_processed_files, verify_log, copied_out,
                   copied_unmapped, abort_cause, callVars,
                   auxVars>>

AddVerification(r) ==
    [stats EXCEPT !.json_matched = @ + r.json_matched,
                  !.date_restored = @ + r.date_restored,
                  !.gps_restored = @ + r.gps_restored]

\* the loop body of the exit-status-0 branch, for one file of the batch
VerifyStep ==
    /\ pc = "batches"
    /\ batch_mode = "verify"
    /\ idx <= Min(batch_num * BatchSize, Len(paths))
    /\ \E answer \in PipelineAnswers :
         LET file_path == paths[idx]
             r == VerifyFileProcessing(file_path, sidecars, answer)
         IN /\ stats' = AddVerification(r)
            /\ verify_log' = Append(verify_log,
                    [file |-> file_path, batch |-> batch_num,
                     verified |-> r.verified])
            /\ IF r.verified
               THEN /\ batch_success' = batch_success + 1
                    /\ batch_processed' = Append(batch_processed, file_path)
                    /\ UNCHANGED batch_unmapped
               ELSE /\ batch_unmapped' =
                        IF FindJsonMetadata(file_path, DOMAIN sidecars) = None
                        THEN Append(batch_unmapped, file_path)
                        ELSE batch_unmapped
                    /\ UNCHANGED <<batch_success, batch_processed>>
    /\ idx' = idx + 1
    /\ UNCHANGED <<pc, tool_present, input_kind, dry_run, paths, sidecars,
                   on_disk, batch_num, batch_mode, success_count,
                   unmapped_files, successfully_processed_files, write_log,
                   copied_out, copied_unmapped, abort_cause, callVars,
                   auxVars>>

\* _process_files_individually, the loop body for one file of the batch
IndividualStep ==
    /\ pc = "batches"
    /\ batch_mode = "individual"
    /\ idx <= Min(batch_num * BatchSize, Len(paths))
    /\ LET file_path == paths[idx]
           json_file == FindJsonMetadata(file_path, DOMAIN sidecars)
       IN IF json_file = None
          THEN /\ batch_unmapped' = Append(batch_unmapped, file_path)
               /\ UNCHANGED <<batch_success, batch_processed, write_log,
                              verify_log, stats>>
          ELSE \E outcome \in IndividualOutcomes, answer \in PipelineAnswers :
                LET r == VerifyFileProcessing(file_path, sidecars, answer)
                IN /\ write_log' = Append(write_log,
                        [mode |-> "individual", batch |-> batch_num,
                         files |-> <<file_path>>, outcome |-> outcome])
                   /\ UNCHANGED batch_unmapped
                   /\ IF outcome = "ok"
                      THEN /\ stats' = AddVerification(r)
                           /\ verify_log' = Append(verify_log,
                                [file |-> file_path, batch |-> batch_num,
                                 verified |-> r.verified])
                           /\ batch_success' =
                                batch_success + (IF r.verified THEN 1 ELSE 0)
                           /\ batch_processed' =
                                IF r.verified
                                THEN Append(batch_processed, file_path)
                                ELSE batch_processed
                      ELSE /\ answer = CHOOSE a \in PipelineAnswers : TRUE
                           /\ UNCHANGED <<stats, verify_log, batch_success,
                                          batch_processed>>
    /\ idx' = idx + 1
    /\ UNCHANGED <<pc, tool_present, input_kind, dry_run, paths, sidecars,
                   on_disk, batch_num, batch_mode, success_count,
                   unmapped_files, successfully_processed_files, copied_out,
                   copied_unmapped, abort_cause, callVars,
                   auxVars>>

\* the return of _process_batch_with_verification into the batch loop; after
\* individual processing without one success the batch is recorded as failed
EndBatch ==
    /\ pc = "batches"
    /\ batch_mode \in {"verify", "individual"}
    /\ idx > Min(batch_num * BatchSize, Len(paths))
    /\ stats' = IF batch_mode = "individual" /\ batch_success = 0
                THEN [stats EXCEPT !.errors =
                        Append(@, [kind |-> "batch_completely_failed",
                                   batch |-> batch_num])]
                ELSE stats
    /\ success_count' = success_count + batch_success
    /\ unmapped_files' = unmapped_files \o batch_unmapped
    /\ successfully_processed_files' =
            successfully_processed_files \o batch_processed
    /\ batch_mode' = "none"
    /\ UNCHANGED <<pc, tool_present, input_kind, dry_run, paths, sidecars,
                   on_disk, idx, batch_num, batch_success, batch_unmapped,
                   batch_processed, write_log, verify_log, copied_out,
                   copied_unmapped, abort_cause, callVars,
                   auxVars>>

\* the tail of process_with_exiftool: the two copies (skipped in dry-run and
\* for an empty list) and stats['processed_files'].  The files of the
\* catalogue lie six components deep in a single export, where every copy
\* finds its destination; SpecRoute has the copy of one file at any depth
FinishProcessing ==
    /\ pc = "batches"
    /\ batch_mode = "none"
    /\ batch_num = TotalBatches
    /\ copied_out' = IF dry_run THEN copied_out
                     ELSE copied_out \cup Range(successfully_processed_files)
    /\ copied_unmapped' = IF dry_run THEN copied_unmapped
                          ELSE copied_unmapped \cup Range(unmapped_files)
    /\ stats' = [stats EXCEPT !.processed_files = success_count]
    /\ pc' = "report"
    /\ UNCHANGED <<tool_present, input_kind, dry_run, paths, sidecars, on_disk,
                   idx, batch_num, batch_mode, success_count, unmapped_files,
                   successfully_processed_files, batch_success, batch_unmapped,
                   batch_processed, write_log, verify_log, abort_cause,
                   callVars,
                   auxVars>>

\* f"{x * 100:.1f}%" for x = part / whole, in tenths of a percent
PercentTenths(part, whole) == (2000 * part + whole) \div (2 * whole)

\* the dictionary generate_report builds from self.stats: the summary keeps
\* the two numbers of its text, the rate is in tenths of a percent
Report ==
    [processing_stats |-> stats,
     summary |-> <<stats.processed_files, stats.total_files>>,
     success_rate |-> PercentTenths(stats.processed_files,
                        IF stats.total_files > 1 THEN stats.total_files ELSE 1)]

\* processing_report.json is written by generate_report unless dry_run
ReportWritten == pc = "done" /\ ~dry_run

\* generate_report and the return of process()
GenerateReport ==
    /\ pc = "report"
    /\ pc' = "done"
    /\ UNCHANGED <<tool_present, input_kind, dry_run, paths, sidecars, on_disk,
                   stats, idx, batch_num, batch_mode, success_count,
                   unmapped_files, successfully_processed_files, batch_success,
                   batch_unmapped, batch_processed, write_log, verify_log,
                   copied_out, copied_unmapped, abort_cause, callVars,
                   auxVars>>

Next ==
    \/ Construct
    \/ Discover
    \/ FixExtension
    \/ EnterProcessing
    \/ DryRunBatch
    \/ StartBatch
    \/ VerifyStep
    \/ IndividualStep
    \/ EndBatch
    \/ FinishProcessing
    \/ GenerateReport

Spec == Init /\ [][Next]_vars

-----------------------------------------------------------------------------
(* find_json_metadata on its own: SpecResolve *)

MarkerAtoms == {"-", "_", "_1", "edited", "EDITED", "-effects", "-EFFECTS"}

RECURSIVE SeqsUpTo(_, _)
SeqsUpTo(S, n) ==
    IF n = 0 THEN {<<>>}
    ELSE LET shorter == SeqsUpTo(S, n - 1)
         IN shorter \cup {Append(t, a) : t \in shorter, a \in S}

\* the media file names drawn: stem "a", up to MaxMarkerAtoms atoms, ".jpg"
GeneratedNames ==
    {<<"a">> \o m \o <<".jpg">> : m \in SeqsUpTo(MarkerAtoms, MaxMarkerAtoms)}

\* the edit markers the specification documents, with the upper-case form
\* Google writes, and their lengths in characters
DocumentedMarkers == EditedMarkers \cup {<<"-EFFECTS", "-", "edited">>}
MarkerChars(m) ==
    CASE m = <<"-", "edited">> -> 7
      [] m = <<"_", "edited">> -> 7
      [] m = <<"_1", "-", "edited">> -> 9
      [] OTHER -> 15

\* originalNameFor of the specification: the longest documented marker that
\* occurs (the leftmost among equally long ones), its first occurrence removed
DocumentedOriginalName(filename) ==
    LET found == {m \in DocumentedMarkers : Contains(filename, m)}
    IN IF found = {} THEN None
       ELSE LET m == CHOOSE x \in found : \A y \in found :
                        \/ MarkerChars(x) > MarkerChars(y)
                        \/ /\ MarkerChars(x) = MarkerChars(y)
                           /\ FirstIndex(filename, x) <= FirstIndex(filename, y)
                i == FirstIndex(filename, m)
            IN SubSeq(filename, 1, i - 1)
                    \o SubSeq(filename, i + Len(m), Len(filename))

AlbumMetadataFile == <<"metadata", ".json">>

\* the files that may exist beside a media file: its sidecars, the sidecars
\* of its original (as the code and as the specification name it), the album
\* metadata file and a sidecar named after the stem alone
DirUniverse(file) ==
    LET bases == {file, GetOriginalName(file), DocumentedOriginalName(file)}
                    \ {None}
    IN {b \o Suffixes[k] : b \in bases, k \in 1..Len(Suffixes)}
         \cup {AlbumMetadataFile, SubSeq(file, 1, Len(file) - 1) \o <<".json">>}

PipeIdle ==
    /\ pc = "idle"
    /\ tool_present = TRUE
    /\ input_kind = "ok"
    /\ dry_run = FALSE
    /\ paths = <<>>
    /\ sidecars = <<>>
    /\ on_disk = {}
    /\ stats = InitialStats
    /\ idx = 0
    /\ batch_num = 0
    /\ batch_mode = "none"
    /\ success_count = 0
    /\ unmapped_files = <<>>
    /\ successfully_processed_files = <<>>
    /\ batch_success = 0
    /\ batch_unmapped = <<>>
    /\ batch_processed = <<>>
    /\ write_log = <<>>
    /\ verify_log = <<>>
    /\ copied_out = {}
    /\ copied_unmapped = {}
    /\ abort_cause = "none"

ResolveInit ==
    /\ PipeIdle
    /\ media_file \in GeneratedNames
    /\ dir_files \in {d \in SUBSET DirUniverse(media_file) :
                        Cardinality(d) <= MaxDirFiles}
    /\ json_path = Pending
    /\ base_name = None
    /\ analysis = NoAnalysis
    /\ AuxIdle

\* one call find_json_metadata(media_file)
Resolve ==
    /\ json_path = Pending
    /\ json_path' = FindJsonMetadata(media_file, dir_files)
    /\ UNCHANGED <<media_file, dir_files, base_name, analysis, pipeVars,
                   auxVars>>

ResolveNext == Resolve

SpecResolve == ResolveInit /\ [][ResolveNext]_vars

-----------------------------------------------------------------------------
(* _get_original_name on its own: SpecOriginalName *)

OriginalNameInit ==
    /\ PipeIdle
    /\ AuxIdle
    /\ media_file \in GeneratedNames
    /\ dir_files = {}
    /\ json_path = None
    /\ base_name = Pending
    /\ analysis = NoAnalysis

\* one call _get_original_name(media_file)
OriginalName ==
    /\ base_name = Pending
    /\ base_name' = GetOriginalName(media_file)
    /\ UNCHANGED <<media_file, dir_files, json_path, analysis, pipeVars,
                   auxVars>>

OriginalNameNext == OriginalName

SpecOriginalName == OriginalNameInit /\ [][OriginalNameNext]_vars

-----------------------------------------------------------------------------
(* _is_edited_photo on its own: SpecEdited *)

EditedInit ==
    /\ PipeIdle
    /\ RouteIdle
    /\ ExtractIdle
    /\ ProgressIdle
    /\ AccuracyIdle
    /\ GuiIdle
    /\ MappingIdle
    /\ media_file \in GeneratedNames
    /\ dir_files = {}
    /\ json_path = None
    /\ base_name = None
    /\ analysis = NoAnalysis
    /\ edited = "pending"

\* one call _is_edited_photo(media_file)
EditedCall ==
    /\ edited = "pending"
    /\ edited' = IF IsEditedPhoto(media_file) THEN "yes" ELSE "no"
    /\ UNCHANGED <<callVars, pipeVars, routeVars, extractVars, progressVars,
                   accuracyVars, guiVars, mappingVars>>

EditedNext == EditedCall

SpecEdited == EditedInit /\ [][EditedNext]_vars

-----------------------------------------------------------------------------
(* The mapping analyzer beside find_json_metadata: SpecAnalyze *)

\* name.startswith(prefix)
StartsWith(name, prefix) ==
    Len(prefix) <= Len(name) /\ SubSeq(name, 1, Len(prefix)) = prefix

\* Path.stem: the name without its last suffix
Stem(file) == SubSeq(file, 1, Len(file) - 1)

\* find_json_for_media_file of the analyzer: the same four suffixes
FindJsonForMediaFile(file, files) == FirstExisting(file, files)

\* find_alternative_json_patterns: the "*.json" files of the directory whose
\* name starts with the stem of the media file
FindAlternativeJsonPatterns(file, files) ==
    {j \in files : j[Len(j)] = ".json" /\ StartsWith(j, Stem(file))}

\* analyze_single_file_mapping: the results it can return (the alternatives
\* are tried in the order glob yields them, which is not specified)
AnalyzeSingleFileMapping(file, files) ==
    LET direct_json == FindJsonForMediaFile(file, files)
        is_edited == Contains(file, <<"-", "edited">>)
        original_json ==
            IF is_edited
            THEN FindJsonForMediaFile(Replace(file, <<"-", "edited">>), files)
            ELSE None
        alternative_json == FindAlternativeJsonPatterns(file, files)
    IN IF direct_json # None
       THEN {[json_file |-> direct_json, mapping_pattern |-> "direct_match"]}
       ELSE IF original_json # None
       THEN {[json_file |-> original_json,
              mapping_pattern |-> "edited_inherits_from_original"]}
       ELSE IF alternative_json # {}
       THEN {[json_file |-> j, mapping_pattern |-> "alternative_pattern"] :
                j \in alternative_json}
       ELSE {[json_file |-> None, mapping_pattern |-> "no_json"]}

\* the media file names drawn for the analyzer
AnalyzerNames ==
    {<<stem>> \o m \o <<".jpg">> :
        stem \in {"a", "metadata"}, m \in {<<>>, <<"-", "edited">>}}

AnalyzeInit ==
    /\ PipeIdle
    /\ AuxIdle
    /\ media_file \in AnalyzerNames
    /\ dir_files \in {d \in SUBSET DirUniverse(media_file) :
                        Cardinality(d) <= MaxDirFiles}
    /\ json_path = Pending
    /\ base_name = None
    /\ analysis = PendingAnalysis

\* one call analyze_single_file_mapping(media_file, json_set)
Analyze ==
    /\ analysis = PendingAnalysis
    /\ analysis' \in AnalyzeSingleFileMapping(media_file, dir_files)
    /\ UNCHANGED <<media_file, dir_files, json_path, base_name, pipeVars,
                   auxVars>>

AnalyzeNext == Analyze \/ Resolve

SpecAnalyze == AnalyzeInit /\ [][AnalyzeNext]_vars

-----------------------------------------------------------------------------
(* The analyzer's loop over all media files: SpecMappings *)

\* media files in the analyzed album
MaxMedia == 3

\* the media files an album is drawn from, in the order they are found, and
\* the JSON files drawn beside them
AlbumMedia == << <<"a", ".jpg">>, <<"a", "-", "edited", ".jpg">>,
                 <<"b", ".jpg">>, <<"b", "-", "edited", ".jpg">> >>
AlbumJson == { <<"a", ".jpg", ".json">>,
               <<"a", "-", "edited", ".jpg", ".json">>,
               <<"a", ".json">> }

\* the sub-lists of a list, order kept
RECURSIVE SubLists(_)
SubLists(list) ==
    IF list = <<>> THEN {<<>>}
    ELSE LET rest == SubLists(Tail(list))
         IN rest \cup {<<Head(list)>> \o r : r \in rest}

\* analyze_all_mappings up to the call of analyze_file_mappings
MappingInit ==
    /\ PipeIdle
    /\ CallsIdle
    /\ RouteIdle
    /\ ExtractIdle
    /\ ProgressIdle
    /\ AccuracyIdle
    /\ GuiIdle
    /\ edited = "idle"
    /\ media_files \in {l \in SubLists(AlbumMedia) : Len(l) <= MaxMedia}
    /\ json_set \in SUBSET AlbumJson
    /\ analysis_results =
            [NoMappings EXCEPT !.total_media_files = Len(media_files)]

\* analyze_file_mappings, one iteration of the loop over media_files
AnalyzeFileMapping ==
    /\ media_files # <<>>
    /\ \E file_analysis \in
                AnalyzeSingleFileMapping(Head(media_files), json_set) :
         LET is_edited == Contains(Head(media_files), <<"-", "edited">>)
             pattern == file_analysis.mapping_pattern
             has_direct_json == pattern = "direct_match"
             has_json == pattern # "no_json"
         IN analysis_results' =
              [analysis_results EXCEPT
                !.edited_photos = @ + (IF is_edited THEN 1 ELSE 0),
                !.edited_with_original_json =
                    @ + (IF is_edited /\ has_json THEN 1 ELSE 0),
                !.direct_matches = @ + (IF has_direct_json THEN 1 ELSE 0),
                !.photos_without_json =
                    @ + (IF ~has_direct_json /\ ~has_json THEN 1 ELSE 0),
                ![pattern] = @ + 1]
    /\ media_files' = Tail(media_files)
    /\ UNCHANGED <<json_set, edited, accuracyVars, guiVars, callVars, pipeVars,
                   routeVars, extractVars, progressVars>>

\* generate_mapping_analysis: 'unmappable_files' of the coverage summary
UnmappableFiles ==
    analysis_results.total_media_files
        - (analysis_results.direct_matches
           + analysis_results.edited_with_original_json)

MappingNext == AnalyzeFileMapping

SpecMappings == MappingInit /\ [][MappingNext]_vars

-----------------------------------------------------------------------------
(* Copying one file below the output directory: SpecRoute *)

\* directories between the file system root and an export directory
MaxPrefix == 2
\* album directories between 'Google Photos' and a media file
MaxAlbumDepth == 5

GooglePhotos == "Google Photos"
Exports == {"Takeout", "Takeout 2"}

\* n times the component c
Repeat(c, n) == [i \in 1..n |-> c]

ExportRoot(prefix_len, export) ==
    Repeat("d", prefix_len) \o <<export, GooglePhotos>>

\* the paths drawn for the copied file
RoutePaths ==
    {ExportRoot(p, e) \o Repeat("album", k) \o <<"a.jpg">> :
        p \in 0..MaxPrefix, e \in Exports, k \in 1..MaxAlbumDepth}

\* no destination: the iteration ended in its `except Exception`
CopyFailed == <<"copy failed">>

\* Path.parents[k]; the k-th parent of a path of n components exists for k < n
Parent(path, k) == SubSeq(path, 1, Len(path) - 1 - k)

\* find_google_photos_dirs(search_dir): the 'Google Photos' directories
\* os.walk meets below search_dir
GooglePhotosBelow(search_dir, dirs) ==
    {g \in dirs : Len(g) > Len(search_dir) /\ StartsWith(g, search_dir)}

\* the lists os.walk can return them in (the order of siblings is the
\* directory listing's)
Orderings(S) ==
    {q \in [1..Cardinality(S) -> S] :
        \A i, j \in 1..Cardinality(S) : q[i] = q[j] => i = j}

\* the fallback loop: from the file's directory upward to the first directory
\* named 'Google Photos'; parents[1] when there is none
ClosestGooglePhotos(path) ==
    LET hits == {n \in 1..(Len(path) - 1) : path[n] = GooglePhotos}
    IN IF hits = {} THEN Parent(path, 1)
       ELSE SubSeq(path, 1, CHOOSE n \in hits : \A m \in hits : m <= n)

\* file_path.relative_to(base); ValueError when base is not an ancestor
RelativeTo(path, base) ==
    IF StartsWith(path, base) /\ Len(base) < Len(path)
    THEN SubSeq(path, Len(base) + 1, Len(path))
    ELSE CopyFailed

\* the destination below the output directory for the list walked
DestPath(rel_path) ==
    IF rel_path = CopyFailed THEN CopyFailed
    ELSE IF bucket = "unmapped" THEN <<"unmapped">> \o rel_path
    ELSE rel_path

\* the part of a drawn path below its 'Google Photos' directory, and the
\* number of directories above its export directory
ClosestRel(path) == RelativeTo(path, ClosestGooglePhotos(path))
PrefixLen(path) == Len(ClosestGooglePhotos(path)) - 2

RouteInit ==
    /\ PipeIdle
    /\ CallsIdle
    /\ ExtractIdle
    /\ ProgressIdle
    /\ ToolsIdle
    /\ asset_path \in RoutePaths
    /\ \E others \in SUBSET Exports :
            disk_dirs = {ClosestGooglePhotos(asset_path)}
                        \cup {ExportRoot(PrefixLen(asset_path), e) : e \in others}
    /\ bucket \in {"processed", "unmapped"}
    /\ google_photos_dirs = <<>>
    /\ dest_path = Pending

\* one iteration of the loop of _copy_processed_files_to_output or of
\* _handle_unmapped_files: parents[5] (IndexError for a path with fewer than
\* six components), the search below it, the fallback, relative_to, the copy
CopyOne ==
    /\ dest_path = Pending
    /\ IF Len(asset_path) < 6
       THEN /\ dest_path' = CopyFailed
            /\ UNCHANGED google_photos_dirs
       ELSE \E found \in Orderings(
                    GooglePhotosBelow(Parent(asset_path, 5), disk_dirs)) :
                LET google_photos_dir ==
                        IF Len(found) = 0 THEN ClosestGooglePhotos(asset_path)
                        ELSE found[1]
                IN /\ google_photos_dirs' = found
                   /\ dest_path' =
                        DestPath(RelativeTo(asset_path, google_photos_dir))
    /\ UNCHANGED <<asset_path, disk_dirs, bucket, extractVars, progressVars,
                   callVars, toolVars, pipeVars>>

RouteNext == CopyOne

SpecRoute == RouteInit /\ [][RouteNext]_vars

-----------------------------------------------------------------------------
(* _extract_parallel: SpecExtract *)

\* archives handed to _extract_parallel
MaxZips == 4
\* the cap on worker threads
WorkerCap == 3

\* variant: one worker thread per archive
MaxWorkersUncapped(n) == n

\* max_workers = min(3, len(zip_files))
MaxWorkers(n) == Min(WorkerCap, n)

NumZips == Len(zip_state)
Running == {z \in 1..NumZips : zip_state[z] = "running"}
Queued == {z \in 1..NumZips : zip_state[z] = "queued"}

\* extract_takeout_zips takes this path for two archives or more
ExtractInit ==
    /\ PipeIdle
    /\ CallsIdle
    /\ RouteIdle
    /\ ProgressIdle
    /\ ToolsIdle
    /\ \E n \in 2..MaxZips : zip_state = [z \in 1..n |-> "new"]
    /\ futures = <<>>
    /\ collected = 0

\* the coordinator's first loop: executor.submit for the next archive
Submit ==
    /\ Len(futures) < NumZips
    /\ LET zip_file == Len(futures) + 1
       IN /\ futures' = Append(futures, zip_file)
          /\ zip_state' = [zip_state EXCEPT ![zip_file] = "queued"]
    /\ UNCHANGED <<collected, routeVars, progressVars, callVars, toolVars,
                   pipeVars>>

\* a worker thread of the pool takes the oldest queued work item; the pool
\* has at most max_workers threads
StartTask ==
    /\ Queued # {}
    /\ Cardinality(Running) < MaxWorkers(NumZips)
    /\ LET zip_file == CHOOSE z \in Queued : \A y \in Queued : z <= y
       IN zip_state' = [zip_state EXCEPT ![zip_file] = "running"]
    /\ UNCHANGED <<futures, collected, routeVars, progressVars, callVars, toolVars,
                   pipeVars>>

\* _extract_single_zip returns, or re-raises what ZipFile raised
FinishTask ==
    /\ \E zip_file \in Running, outcome \in {"ok", "failed"} :
            zip_state' = [zip_state EXCEPT ![zip_file] = outcome]
    /\ UNCHANGED <<futures, collected, routeVars, progressVars, callVars, toolVars,
                   pipeVars>>

\* the coordinator's second loop: future.result() of the next future, once
\* that future is done; an exception adds an entry to stats['errors']
Collect ==
    /\ Len(futures) = NumZips
    /\ collected < Len(futures)
    /\ LET zip_file == futures[collected + 1]
       IN /\ zip_state[zip_file] \in {"ok", "failed"}
          /\ stats' = IF zip_state[zip_file] = "failed"
                       THEN [stats EXCEPT !.errors =
                               Append(@, [kind |-> "extraction_failed",
                                          archive |-> zip_file])]
                       ELSE stats
    /\ collected' = collected + 1
    /\ UNCHANGED <<zip_state, futures, routeVars, progressVars, callVars, toolVars,
                   pc,
                   tool_present, input_kind, dry_run, paths, sidecars, on_disk,
                   idx, batch_num, batch_mode, success_count, unmapped_files,
                   successfully_processed_files, batch_success, batch_unmapped,
                   batch_processed, write_log, verify_log, copied_out,
                   copied_unmapped, abort_cause>>

ExtractNext == Submit \/ StartTask \/ FinishTask \/ Collect

SpecExtract == ExtractInit /\ [][ExtractNext]_vars

-----------------------------------------------------------------------------
(* update_status and the observer's callbacks: SpecProgress *)

\* callback invocations a stalling observer returns from before it stalls
MaxReturns == 3

\* the batches of the run
ProgressBatches == (NumFiles + BatchSize - 1) \div BatchSize

\* progress = 0.3 + (batch_num / total_batches) * 0.4, in thousandths
BatchFraction(batch) == 300 + (400 * batch) \div ProgressBatches

\* the update_status calls of a run over an extracted directory of NumFiles
\* media files, in program order, each with the line of the call, whether
\* it passes a progress value, and that value in thousandths. The extension
\* check reports at i = 0 only (0.2 + (0 / n) * 0.1) and the copy loop at
\* every 50th file, which this many files do not reach.
StatusCalls ==
    << [line |-> 815, progress |-> FALSE, fraction |-> 0],
       [line |-> 832, progress |-> TRUE, fraction |-> 200],
       [line |-> 844, progress |-> TRUE, fraction |-> 250],
       [line |-> 383, progress |-> FALSE, fraction |-> 0],
       [line |-> 387, progress |-> TRUE, fraction |-> 200],
       [line |-> 411, progress |-> FALSE, fraction |-> 0],
       [line |-> 437, progress |-> FALSE, fraction |-> 0] >>
    \o [k \in 1..ProgressBatches |->
            [line |-> 446, progress |-> TRUE,
             fraction |-> BatchFraction(k - 1)]]
    \o << [line |-> 856, progress |-> TRUE, fraction |-> 900],
          [line |-> 859, progress |-> TRUE, fraction |-> 1000] >>

\* the observer: which callbacks it has set, and whether its callbacks stop
\* returning after some number of invocations
Observers ==
    [status_callback : BOOLEAN, progress_callback : BOOLEAN,
     stalls : {FALSE}, returns : {0}]
    \cup [status_callback : BOOLEAN, progress_callback : BOOLEAN,
          stalls : {TRUE}, returns : 0..MaxReturns]

\* the callback invocation in progress returns to update_status
Returns == ~observer.stalls \/ observer.returns > 0
AfterReturn ==
    IF observer.stalls
    THEN [observer EXCEPT !.returns = observer.returns - 1]
    ELSE observer

\* if self.progress_callback and progress is not None
CallsProgress(call) == observer.progress_callback /\ call.progress

ProgressInit ==
    /\ PipeIdle
    /\ CallsIdle
    /\ RouteIdle
    /\ ExtractIdle
    /\ ToolsIdle
    /\ status_point = 0
    /\ in_callback = "none"
    /\ observer \in Observers
    /\ progress_log = <<>>

\* the run reaches its next update_status call: the message is logged and
\* the status callback, if set, is called on the run's own thread; without
\* one the progress callback is called if set and a progress is passed
UpdateStatus ==
    /\ in_callback = "none"
    /\ status_point < Len(StatusCalls)
    /\ status_point' = status_point + 1
    /\ in_callback' = IF observer.status_callback THEN "status"
                      ELSE IF CallsProgress(StatusCalls[status_point + 1])
                           THEN "progress"
                           ELSE "none"
    /\ progress_log' =
            IF in_callback' = "progress"
            THEN Append(progress_log, StatusCalls[status_point + 1].fraction)
            ELSE progress_log
    /\ UNCHANGED <<observer, routeVars, extractVars, callVars, toolVars,
                   pipeVars>>

\* status_callback(message) returns; update_status goes on to the progress
\* callback
StatusCallbackReturns ==
    /\ in_callback = "status"
    /\ Returns
    /\ observer' = AfterReturn
    /\ in_callback' = IF CallsProgress(StatusCalls[status_point])
                      THEN "progress"
                      ELSE "none"
    /\ progress_log' =
            IF in_callback' = "progress"
            THEN Append(progress_log, StatusCalls[status_point].fraction)
            ELSE progress_log
    /\ UNCHANGED <<status_point, routeVars, extractVars, callVars, toolVars,
                   pipeVars>>

\* progress_callback(progress) returns and with it update_status
ProgressCallbackReturns ==
    /\ in_callback = "progress"
    /\ Returns
    /\ observer' = AfterReturn
    /\ in_callback' = "none"
    /\ UNCHANGED <<status_point, progress_log, routeVars, extractVars,
                   callVars, toolVars, pipeVars>>

\* process() has returned from its last update_status call
ProcessReturned ==
    status_point = Len(StatusCalls) /\ in_callback = "none"

ProgressNext ==
    UpdateStatus \/ StatusCallbackReturns \/ ProgressCallbackReturns

\* the run's thread keeps running, and a callback that returns does so
SpecProgress ==
    ProgressInit /\ [][ProgressNext]_vars /\ WF_vars(ProgressNext)

-----------------------------------------------------------------------------
(* ProcessingVerifier.verify_timestamp_accuracy: SpecAccuracy *)

\* the instants drawn lie within this many hours, on the hour or one second
\* past it
MaxHours == 8
\* `if time_diff > 21600`
ToleranceSeconds == 21600
\* a key that is missing from json_data or exif_data
NoValue == -1

Instants == {h * 3600 + d : h \in 0..MaxHours, d \in {0, 1}}
Offsets == {-18000, 0, 7200}
Abs(x) == IF x < 0 THEN -x ELSE x

\* `datetime` is the class imported by `from datetime import datetime`; it
\* has no attribute `timezone`, so evaluating datetime.timezone.utc raises
\* AttributeError
DatetimeHasTimezone == FALSE

\* verify_timestamp_accuracy: the returned flag and the number of entries
\* added to timestamp_accuracy_issues.  Every exception of the body is
\* caught and turned into False.
VerifyTimestampAccuracy(original_timestamp, embedded, offset) ==
    IF original_timestamp = NoValue \/ embedded = NoValue
    THEN [result |-> FALSE, issues |-> 0]
    ELSE IF ~DatetimeHasTimezone
    THEN [result |-> FALSE, issues |-> 0]
    ELSE LET utc_diff == Abs(original_timestamp - embedded)
             local_diff == Abs(original_timestamp + offset - embedded)
             time_diff == Min(utc_diff, local_diff)
         IN IF time_diff > ToleranceSeconds
            THEN [result |-> FALSE, issues |-> 1]
            ELSE [result |-> TRUE, issues |-> 0]

AccuracyInit ==
    /\ PipeIdle
    /\ CallsIdle
    /\ RouteIdle
    /\ ExtractIdle
    /\ ProgressIdle
    /\ GuiIdle
    /\ MappingIdle
    /\ edited = "idle"
    /\ json_timestamp \in Instants \cup {NoValue}
    /\ embedded_date \in Instants \cup {NoValue}
    /\ utc_offset \in Offsets
    /\ accurate = "pending"
    /\ verification_results = NoResults

\* one call verify_timestamp_accuracy(json_data, exif_data, media_file) and
\* the count verify_single_file keeps of the calls that returned True
AccuracyCall ==
    /\ accurate = "pending"
    /\ LET r == VerifyTimestampAccuracy(json_timestamp, embedded_date,
                                        utc_offset)
       IN /\ accurate' = IF r.result THEN "yes" ELSE "no"
          /\ verification_results' =
                [verification_results EXCEPT
                    !.files_with_correct_dates =
                        @ + (IF r.result THEN 1 ELSE 0),
                    !.timestamp_accuracy_issues = @ + r.issues]
    /\ UNCHANGED <<json_timestamp, embedded_date, utc_offset, edited, guiVars,
                   mappingVars, callVars, pipeVars, routeVars, extractVars,
                   progressVars>>

AccuracyNext == AccuracyCall

SpecAccuracy == AccuracyInit /\ [][AccuracyNext]_vars

-----------------------------------------------------------------------------
(* The window of TakeoutProcessorGUI: SpecGui *)

\* runs that may be under way at once in the states explored
MaxRuns == 3

\* __init__ and create_widgets: nothing selected, the button disabled
GuiInit ==
    /\ PipeIdle
    /\ CallsIdle
    /\ RouteIdle
    /\ ExtractIdle
    /\ ProgressIdle
    /\ AccuracyIdle
    /\ MappingIdle
    /\ edited = "idle"
    /\ zip_files = "none"
    /\ output_dir = FALSE
    /\ process_button = "disabled"
    /\ threads = 0
    /\ after_queue = <<>>

\* check_ready_to_process with the selections given: the button is set to
\* normal when both are there, and left as it is otherwise
CheckReadyToProcess(zips, out) ==
    IF zips # "none" /\ out THEN "normal" ELSE process_button

\* select_zip_files: the dialog returns files, or nothing when cancelled
SelectZipFiles ==
    /\ process_button # "none"
    /\ \E chosen \in BOOLEAN :
         IF chosen
         THEN /\ zip_files' = "files"
              /\ process_button' = CheckReadyToProcess("files", output_dir)
         ELSE UNCHANGED <<zip_files, process_button>>
    /\ UNCHANGED <<output_dir, threads, after_queue, edited, accuracyVars,
                   mappingVars, callVars, pipeVars, routeVars, extractVars,
                   progressVars>>

\* select_zip_folder: a folder with takeout-*.zip files, a folder without
\* (a warning, nothing stored), or nothing when cancelled
SelectZipFolder ==
    /\ process_button # "none"
    /\ \E chosen \in {"with_zips", "without_zips", "cancelled"} :
         IF chosen = "with_zips"
         THEN /\ zip_files' = "folder"
              /\ process_button' = CheckReadyToProcess("folder", output_dir)
         ELSE UNCHANGED <<zip_files, process_button>>
    /\ UNCHANGED <<output_dir, threads, after_queue, edited, accuracyVars,
                   mappingVars, callVars, pipeVars, routeVars, extractVars,
                   progressVars>>

\* select_output_dir
SelectOutputDir ==
    /\ process_button # "none"
    /\ \E chosen \in BOOLEAN :
         IF chosen
         THEN /\ output_dir' = TRUE
              /\ process_button' = CheckReadyToProcess(zip_files, TRUE)
         ELSE UNCHANGED <<output_dir, process_button>>
    /\ UNCHANGED <<zip_files, threads, after_queue, edited, accuracyVars,
                   mappingVars, callVars, pipeVars, routeVars, extractVars,
                   progressVars>>

\* start_processing, the command of the button: a click reaches it only
\* while the button is normal; it disables the button and starts the thread
StartProcessing ==
    /\ process_button = "normal"
    /\ threads + Len(after_queue) < MaxRuns
    /\ process_button' = "disabled"
    /\ threads' = threads + 1
    /\ UNCHANGED <<zip_files, output_dir, after_queue, edited, accuracyVars,
                   mappingVars, callVars, pipeVars, routeVars, extractVars,
                   progressVars>>

\* process_photos comes to its end on a background thread and posts
\* processing_complete(success) or, on an exception, processing_error
ProcessPhotosEnds ==
    /\ threads > 0
    /\ threads' = threads - 1
    /\ \E posted \in {"complete_true", "complete_false", "error"} :
         after_queue' = Append(after_queue, posted)
    /\ UNCHANGED <<zip_files, output_dir, process_button, edited, accuracyVars,
                   mappingVars, callVars, pipeVars, routeVars, extractVars,
                   progressVars>>

\* the main loop runs the posted processing_complete or processing_error:
\* both set the button to normal
ProcessingOver ==
    /\ after_queue # <<>>
    /\ after_queue' = Tail(after_queue)
    /\ process_button' = "normal"
    /\ UNCHANGED <<zip_files, output_dir, threads, edited, accuracyVars,
                   mappingVars, callVars, pipeVars, routeVars, extractVars,
                   progressVars>>

\* the runs between start_processing and their processing_complete or
\* processing_error
ActiveRuns == threads + Len(after_queue)

GuiNext ==
    \/ SelectZipFiles
    \/ SelectZipFolder
    \/ SelectOutputDir
    \/ StartProcessing
    \/ ProcessPhotosEnds
    \/ ProcessingOver

SpecGui == GuiInit /\ [][GuiNext]_vars

-----------------------------------------------------------------------------
(* _verify_file_processing on its own: SpecVerify *)

\* calls of the verifier on the one asset
MaxVerifyCalls == 2

VerifiedFile == <<"a", ".jpg">>

VerifyInit ==
    /\ pc = "verifier"
    /\ tool_present = TRUE
    /\ input_kind = "ok"
    /\ dry_run = FALSE
    /\ paths = <<VerifiedFile>>
    /\ \E present \in SUBSET {VerifiedFile \o <<".json">>} :
            sidecars \in [present -> WellFormedContents]
    /\ on_disk = {VerifiedFile}
    /\ stats = InitialStats
    /\ idx = 1
    /\ batch_num = 0
    /\ batch_mode = "none"
    /\ success_count = 0
    /\ unmapped_files = <<>>
    /\ successfully_processed_files = <<>>
    /\ batch_success = 0
    /\ batch_unmapped = <<>>
    /\ batch_processed = <<>>
    /\ write_log = <<>>
    /\ verify_log = <<>>
    /\ copied_out = {}
    /\ copied_unmapped = {}
    /\ abort_cause = "none"
    /\ CallsIdle
    /\ AuxIdle

\* variant: only the first call on a file can report it verified
VerifyCallFirstOnly ==
    /\ pc = "verifier"
    /\ Len(verify_log) < MaxVerifyCalls
    /\ \E answer \in ExifAnswers :
         LET r == VerifyFileProcessing(paths[idx], sidecars, answer)
         IN /\ stats' = AddVerification(r)
            /\ verify_log' = Append(verify_log,
                    [file |-> paths[idx], batch |-> 0,
                     verified |-> r.verified /\ verify_log = <<>>,
                     answer |-> answer])
    /\ UNCHANGED <<callVars, auxVars, pc, tool_present,
                   input_kind, dry_run, paths, sidecars, on_disk, idx,
                   batch_num, batch_mode, success_count, unmapped_files,
                   successfully_processed_files, batch_success, batch_unmapped,
                   batch_processed, write_log, copied_out, copied_unmapped,
                   abort_cause>>

\* one call _verify_file_processing(paths[1]), the tool answering `answer`
\* (kept in the log entry beside the result)
VerifyCall ==
    /\ pc = "verifier"
    /\ Len(verify_log) < MaxVerifyCalls
    /\ \E answer \in ExifAnswers :
         LET r == VerifyFileProcessing(paths[idx], sidecars, answer)
         IN /\ stats' = AddVerification(r)
            /\ verify_log' = Append(verify_log,
                    [file |-> paths[idx], batch |-> 0, verified |-> r.verified,
                     answer |-> answer])
    /\ UNCHANGED <<callVars, auxVars, pc, tool_present,
                   input_kind, dry_run, paths, sidecars, on_disk, idx,
                   batch_num, batch_mode, success_count, unmapped_files,
                   successfully_processed_files, batch_success, batch_unmapped,
                   batch_processed, write_log, copied_out, copied_unmapped,
                   abort_cause>>

VerifyNext == VerifyCall

SpecVerify == VerifyInit /\ [][VerifyNext]_vars

-----------------------------------------------------------------------------
(* Properties *)

SidecarOf(f) == FindJsonMetadata(f, DOMAIN sidecars)
RunOver == pc \in {"report", "done"}
BatchesDone == IF pc = "batches" /\ batch_mode # "none" THEN batch_num - 1
               ELSE batch_num
\* the entries of a log that belong to batch n, in order
OfBatch(log, n) == SelectSeq(log, LAMBDA e : e.batch = n)
IndividualEntries(n) ==
    SelectSeq(write_log, LAMBDA e : e.batch = n /\ e.mode = "individual")
FilesOf(log) == [i \in 1..Len(log) |-> log[i].files[1]]

\* C1: after a non-dry run every input file is in exactly one of the two
\* result sets, the processed one (copied under the output directory) or the
\* unmapped one (copied under output/unmapped); a file whose verification or
\* individual invocation fails is in the unmapped one.
C1_EveryFileInExactlyOneSet ==
    (pc = "done" /\ ~dry_run) =>
        \A f \in Range(paths) :
            /\ (f \in copied_out) # (f \in copied_unmapped)
            /\ (f \in Range(successfully_processed_files))
                    # (f \in Range(unmapped_files))

\* C2: an asset adds to the processed count only if the verifier returned
\* true for it, and at the end stats['processed_files'] is the number of
\* assets in the successfully-processed list, in every run.
C2_ProcessedCountIsVerifiedCount ==
    RunOver =>
        /\ stats.processed_files = Len(successfully_processed_files)
        /\ stats.processed_files =
                Cardinality({i \in 1..Len(verify_log) : verify_log[i].verified})

ContentOf(f) == sidecars[SidecarOf(f)]
HasTimestamp(f) ==
    SidecarOf(f) # None /\ ContentOf(f).valid /\ ContentOf(f).timestamp = "present"
HasNonZeroLatitude(f) ==
    SidecarOf(f) # None /\ ContentOf(f).valid /\ ContentOf(f).latitude = "nonzero"
HasDescription(f) ==
    SidecarOf(f) # None /\ ContentOf(f).valid
        /\ ContentOf(f).description = "present"

\* C4: the verifier returns verified exactly when (the sidecar has a
\* timestamp and the asset reports DateTimeOriginal) or (the sidecar latitude
\* is non-zero and the asset reports GPSLatitude) or (the sidecar description
\* is non-empty and the asset reports Description); date_restored and
\* gps_restored count exactly the calls whose first, respectively second,
\* condition held, so a field missing from the sidecar never verifies the
\* asset and never adds to a counter, whatever the asset itself reports.
C4_VerifiedIffSourceFieldRestored ==
    pc = "verifier" =>
        /\ \A i \in 1..Len(verify_log) :
            LET e == verify_log[i]
            IN e.verified <=>
                \/ HasTimestamp(e.file) /\ e.answer.DateTimeOriginal
                \/ HasNonZeroLatitude(e.file) /\ e.answer.GPSLatitude
                \/ HasDescription(e.file) /\ e.answer.Description
        /\ stats.date_restored = Cardinality({i \in 1..Len(verify_log) :
                /\ HasTimestamp(verify_log[i].file)
                /\ verify_log[i].answer.DateTimeOriginal})
        /\ stats.gps_restored = Cardinality({i \in 1..Len(verify_log) :
                /\ HasNonZeroLatitude(verify_log[i].file)
                /\ verify_log[i].answer.GPSLatitude})

\* the sidecar has a description but neither photoTakenTime nor geoData keys,
\* the asset reports all three fields: verified by the description alone,
\* with no date or GPS counted as restored
C4_Witness ==
    /\ pc = "verifier"
    /\ Len(verify_log) = 1
    /\ SidecarOf(verify_log[1].file) # None
    /\ ContentOf(verify_log[1].file).timestamp = "missing"
    /\ ContentOf(verify_log[1].file).latitude = "missing"
    /\ ContentOf(verify_log[1].file).description = "present"
    /\ verify_log[1].answer.DateTimeOriginal
    /\ verify_log[1].answer.GPSLatitude
    /\ verify_log[1].answer.Description
    /\ verify_log[1].verified
    /\ stats.date_restored = 0
    /\ stats.gps_restored = 0

\* C5: when at least one direct sidecar of the asset exists, the call returns
\* the existing direct sidecar that comes first in the suffix order, whatever
\* else (the original's sidecars, metadata.json, ...) is in the directory.
C5_DirectSidecarWins ==
    json_path # Pending =>
        \A k \in 1..Len(Suffixes) :
            (/\ (media_file \o Suffixes[k]) \in dir_files
             /\ \A j \in 1..(k - 1) : (media_file \o Suffixes[j]) \notin dir_files)
            => json_path = media_file \o Suffixes[k]

\* an edited variant with its own sidecar of the lowest precedence while the
\* original has one of the highest: the own sidecar is returned
C5_Witness ==
    /\ json_path # Pending
    /\ IsEditedPhoto(media_file)
    /\ GetOriginalName(media_file) # None
    /\ dir_files = {media_file \o Suffixes[4],
                    GetOriginalName(media_file) \o Suffixes[1]}
    /\ json_path = media_file \o Suffixes[4]

\* C6: an edited variant (its name contains a documented edit marker) that
\* has no sidecar of its own while a sidecar of its original exists gets the
\* original's sidecar, the first existing one in the suffix order.
C6_EditedInheritsOriginalSidecar ==
    (/\ json_path # Pending
     /\ \E m \in DocumentedMarkers : Contains(media_file, m)
     /\ FirstExisting(media_file, dir_files) = None
     /\ FirstExisting(DocumentedOriginalName(media_file), dir_files) # None)
    => json_path = FirstExisting(DocumentedOriginalName(media_file), dir_files)

\* extractableTimestamp of the specification on the catalogue's names: the
\* VID_YYYYMMDD_HHMMSS stem is the one that encodes a date
ExtractableTimestamp(file) == file[1] = "VID_20210619_125530"

\* C7: an asset without any sidecar whose name carries an extractable
\* timestamp is resolved by the 'filename' strategy: the batch counts it as
\* processed and does not place it in the unmapped set.
C7_FilenameStrategyResolves ==
    RunOver =>
        \A f \in Range(paths) :
            (SidecarOf(f) = None /\ ExtractableTimestamp(f)) =>
                /\ f \notin Range(unmapped_files)
                /\ f \in Range(successfully_processed_files)

\* C8: an asset for which no sidecar is found is placed in the unmapped set
\* and is never named in a writing invocation of the tool, batch or individual.
C8_UnresolvedNeverEmbedded ==
    /\ \A i \in 1..Len(write_log) :
            \A f \in Range(write_log[i].files) : SidecarOf(f) # None
    /\ RunOver => \A f \in Range(paths) :
            SidecarOf(f) = None => f \in Range(unmapped_files)

MalformedSidecar(f) == SidecarOf(f) # None /\ ~ContentOf(f).valid

\* C9: a sidecar that exists but cannot be parsed is loaded as the empty
\* record, is still found by resolution, never verifies its asset, and does
\* not stop the run: at the end of a non-dry run every asset with a sidecar
\* has been verified or had its individual invocation fail.
C9_MalformedSidecarIsEmptyNotFatal ==
    /\ \A s \in DOMAIN sidecars :
            ~sidecars[s].valid => LoadJsonSafely(sidecars[s]) = EmptyDict
    /\ \A i \in 1..Len(verify_log) :
            verify_log[i].verified => ~MalformedSidecar(verify_log[i].file)
    /\ (RunOver /\ ~dry_run) =>
            \A f \in Range(paths) :
                SidecarOf(f) # None =>
                    \/ \E i \in 1..Len(verify_log) : verify_log[i].file = f
                    \/ \E i \in 1..Len(write_log) :
                            /\ write_log[i].mode = "individual"
                            /\ write_log[i].files = <<f>>
                            /\ write_log[i].outcome # "ok"

\* a finished run that verified an asset with a malformed sidecar (not
\* verified) and, after it, verified another asset successfully
C9_Witness ==
    /\ pc = "done"
    /\ \E i, j \in 1..Len(verify_log) :
        /\ i < j
        /\ MalformedSidecar(verify_log[i].file)
        /\ ~verify_log[i].verified
        /\ verify_log[j].verified

NothingProcessed ==
    /\ paths = <<>>
    /\ on_disk = Range(MediaFiles)
    /\ stats = InitialStats
    /\ write_log = <<>>
    /\ verify_log = <<>>
    /\ copied_out = {}
    /\ copied_unmapped = {}

\* C10 as claimed: a missing tool stops the construction before any asset is
\* discovered, renamed, embedded or copied, and it is the only condition
\* under which a run is aborted.
C10_OnlyMissingToolAborts ==
    /\ pc = "fatal" => NothingProcessed
    /\ ~tool_present => pc \in {"init", "fatal"}
    /\ pc \in {"fatal", "failed"} => ~tool_present

\* C10, amended: a missing tool stops the construction before any asset is
\* discovered, renamed, embedded or copied; it is not the only condition that
\* aborts a run: an invalid input source or the absence of a 'Google Photos'
\* directory makes process() return False, also before any asset is
\* discovered, renamed, embedded or copied.
C10_AbortsBeforeAnyAsset ==
    /\ ~tool_present => pc \in {"init", "fatal"}
    /\ pc = "fatal" =>
            ~tool_present /\ abort_cause = "tool_missing" /\ NothingProcessed
    /\ (tool_present /\ input_kind # "ok") =>
            pc \in {"init", "constructed", "failed"}
    /\ abort_cause \in {"invalid", "no_google_photos"} =>
            pc = "failed" /\ NothingProcessed

\* the constructor has raised for a missing tool
C10_Witness ==
    /\ pc = "fatal"
    /\ ~tool_present
    /\ abort_cause = "tool_missing"
    /\ NothingProcessed

\* the assets of the run that failed on their own: the individual invocation
\* did not exit 0, or the verifier returned False although a sidecar exists
FailedInBatch(n) ==
    {write_log[i].files[1] : i \in {j \in 1..Len(write_log) :
        /\ write_log[j].batch = n
        /\ write_log[j].mode = "individual"
        /\ write_log[j].outcome # "ok"}}
    \cup {verify_log[i].file : i \in {j \in 1..Len(verify_log) :
        /\ verify_log[j].batch = n
        /\ ~verify_log[j].verified
        /\ SidecarOf(verify_log[j].file) # None}}

\* C11: at the end of a run every per-asset failure (an individual invocation
\* that exits non-zero, times out or raises; a failed verification of an
\* asset with a sidecar) is recorded in stats['errors'], here in the weakest
\* sense: an entry of stats['errors'] names the batch of the failed asset.
C11_EveryAssetFailureRecorded ==
    RunOver =>
        \A n \in 1..batch_num :
            FailedInBatch(n) # {} =>
                \E k \in 1..Len(stats.errors) : stats.errors[k].batch = n

\* C12: a failure confined to one asset or one invocation never ends the
\* run: process() returns False only before any asset was discovered.
C12_SingleFailureNeverEndsRun ==
    pc = "failed" => paths = <<>>

StrategyCounters ==
    {"json_matched", "cross_album_matched", "album_metadata_applied",
     "filename_metadata_extracted", "exif_preserved", "album_date_inferred"}

\* C13: a freshly constructed processor has the six strategy counters, each
\* 0, and no step of a run decreases one of them.
C13_StrategyCountersZeroThenGrow ==
    /\ [](pc = "constructed" =>
            \A k \in StrategyCounters : k \in DOMAIN stats /\ stats[k] = 0)
    /\ [][\A k \in StrategyCounters \cap DOMAIN stats :
            stats'[k] >= stats[k]]_vars

\* C14: the report of a finished run has the keys metadata_strategies,
\* strategy_breakdown (with direct_json, exif_preserved, album_date_inferred)
\* and enhanced_metadata_total, the latter the sum of the six strategy
\* counters, and its success rate is verified assets over discovered assets.
C14_ReportHasStrategyBreakdown ==
    pc = "done" =>
        /\ {"processing_stats", "metadata_strategies", "strategy_breakdown",
            "enhanced_metadata_total"} \subseteq DOMAIN Report
        /\ {"direct_json", "exif_preserved", "album_date_inferred"}
                \subseteq DOMAIN Report.strategy_breakdown
        /\ Report.enhanced_metadata_total =
                stats.json_matched + stats.cross_album_matched
                + stats.album_metadata_applied
                + stats.filename_metadata_extracted
                + stats.exif_preserved + stats.album_date_inferred
        /\ Report.success_rate =
                IF stats.total_files = 0 THEN 0
                ELSE PercentTenths(
                        Cardinality({i \in 1..Len(verify_log) :
                                        verify_log[i].verified}),
                        stats.total_files)

\* C20: for a name _is_edited_photo accepts, _get_original_name returns a
\* name, and that name is the input with the first occurrence of its longest
\* edit marker removed ('_1-edited' rather than '-edited', the whole of
\* '-EFFECTS-edited').
C20_LongestMarkerFirstOccurrence ==
    (base_name # Pending /\ IsEditedPhoto(media_file)) =>
        /\ base_name # None
        /\ base_name = DocumentedOriginalName(media_file)

\* C19: no resolution step maps the album's metadata.json to a media file:
\* not find_json_metadata (direct suffixes, inheritance from the original)
\* and not the analyzer (direct, inherited, name-prefix alternative).
C19_AlbumMetadataNeverSelected ==
    /\ json_path # AlbumMetadataFile
    /\ analysis.json_file # AlbumMetadataFile

\* C15: whatever the depth of the file, its destination is the output
\* directory (or output/unmapped) followed by the file's path relative to the
\* nearest ancestor named 'Google Photos', and the copy takes place.
C15_ReRootedAtNearestGooglePhotos ==
    dest_path # Pending =>
        /\ dest_path # CopyFailed
        /\ dest_path = DestPath(ClosestRel(asset_path))

\* the entries of stats['errors'] for archive z
ErrorsFor(z) ==
    {k \in 1..Len(stats.errors) : stats.errors[k].archive = z}

\* C16: during _extract_parallel of n archives at most min(3, n) extractions
\* run at a time; no archive is submitted twice and, once the coordinator is
\* through, each was submitted; a failed extraction leaves the others to run
\* to their own end and has exactly one entry in stats['errors'], which only
\* the coordinator's result loop appends.
C16_ParallelExtractionBoundedIsolated ==
    /\ Cardinality(Running) <= Min(3, NumZips)
    /\ \A i, j \in 1..Len(futures) : futures[i] = futures[j] => i = j
    /\ Len(stats.errors) <= collected
    /\ \A z \in 1..NumZips :
            Cardinality(ErrorsFor(z)) <= 1
    /\ collected = NumZips =>
            /\ Range(futures) = 1..NumZips
            /\ \A z \in 1..NumZips :
                    /\ zip_state[z] \in {"ok", "failed"}
                    /\ Cardinality(ErrorsFor(z)) =
                            IF zip_state[z] = "failed" THEN 1 ELSE 0

\* four archives all collected: the first failed, the three after it were
\* extracted, and stats['errors'] has the one entry
C16_Witness ==
    /\ NumZips = 4
    /\ collected = 4
    /\ zip_state = <<"failed", "ok", "ok", "ok">>
    /\ Len(stats.errors) = 1

\* the batch invocations issued, in order
BatchInvocations == SelectSeq(write_log, LAMBDA e : e.mode = "batch")

\* every file of batch n has been gone through: verified after exit status
\* 0, otherwise invoked individually if it has a sidecar and verified if that
\* invocation exited 0
BatchComplete(n) ==
    LET e == BatchInvocations[n]
        individual == IndividualEntries(n)
    IN IF e.outcome = "ok"
       THEN /\ Len(OfBatch(verify_log, n)) = Len(e.files)
            /\ individual = <<>>
       ELSE /\ FilesOf(individual) = Matched(e.files)
            /\ Len(OfBatch(verify_log, n)) =
                    Len(SelectSeq(individual, LAMBDA x : x.outcome = "ok"))

\* the split into batches, as far as the run has come
BatchesInOrder ==
    /\ \A k \in 1..Len(BatchInvocations) :
            /\ BatchInvocations[k].batch = k
            /\ BatchInvocations[k].files # <<>>
            /\ Len(BatchInvocations[k].files) <= BatchSize
            /\ BatchInvocations[k].files =
                    SubSeq(paths, (k - 1) * BatchSize + 1,
                           IF k * BatchSize < Len(paths) THEN k * BatchSize
                           ELSE Len(paths))
    /\ (RunOver /\ ~dry_run) =>
            /\ (Len(BatchInvocations) - 1) * BatchSize < Len(paths)
            /\ Len(paths) <= Len(BatchInvocations) * BatchSize
    /\ (RunOver /\ dry_run) => success_count = Len(paths)

\* a step that starts a batch comes after the previous batch is complete,
\* and a step that adds an invocation or a verification adds it to the batch
\* started last
BatchStepsInOrder ==
    /\ batch_num' # batch_num =>
            /\ batch_num' = batch_num + 1
            /\ batch_mode = "none"
            /\ (batch_num >= 1 /\ ~dry_run) => BatchComplete(batch_num)
    /\ Len(write_log') > Len(write_log) =>
            /\ write_log'[Len(write_log')].batch = batch_num'
            /\ \A i \in 1..Len(verify_log) : verify_log[i].batch <= batch_num
    /\ Len(verify_log') > Len(verify_log) =>
            verify_log'[Len(verify_log')].batch = batch_num'

\* C18: the n files are split into ceil(n / batch_size) consecutive
\* non-empty batches of at most batch_size files, each file in exactly one;
\* the batches are processed one at a time in input order, batch k+1
\* starting only after the invocations and verifications of batch k.
C18_BatchesSequentialInOrder ==
    []BatchesInOrder /\ [][BatchStepsInOrder]_vars

\* a finished run of two batches: the first fell back to the individual
\* pass, the second was verified after its batch invocation
C18_Witness ==
    /\ pc = "done"
    /\ Len(BatchInvocations) = 2
    /\ BatchInvocations[1].outcome # "ok"
    /\ BatchInvocations[2].outcome = "ok"
    /\ IndividualEntries(1) # <<>>
    /\ OfBatch(verify_log, 2) # <<>>

\* C17: reporting to the observer never blocks the pipeline: the run
\* completes whether its callbacks return quickly, slowly or never.
C17_RunCompletesWhateverObserver == <>ProcessReturned

\* C21: _is_edited_photo answers true exactly for the names that contain one
\* of '-edited', '-effects-edited', '_edited', '_1-edited' as written: a name
\* with a marker in another letter case only is not an edited variant.
C21_EditedIffMarkerCaseSensitive ==
    edited # "pending" =>
        (edited = "yes" <=> \E m \in EditedMarkers : Contains(media_file, m))

\* the writing invocations of one mode that name file f
InvocationsOn(f, mode) ==
    {i \in 1..Len(write_log) :
        /\ write_log[i].mode = mode
        /\ \E k \in 1..Len(write_log[i].files) : write_log[i].files[k] = f}
VerifiedFiles == {verify_log[i].file : i \in 1..Len(verify_log)}

\* no asset has two verifications, two batch invocations or two individual
\* invocations, and no invocation names it twice
AtMostOnceEach ==
    /\ \A i, j \in 1..Len(verify_log) :
            i # j => verify_log[i].file # verify_log[j].file
    /\ \A i \in 1..Len(write_log) : \A k, l \in 1..Len(write_log[i].files) :
            k # l => write_log[i].files[k] # write_log[i].files[l]
    /\ \A f \in Range(paths) :
            /\ Cardinality(InvocationsOn(f, "batch")) <= 1
            /\ Cardinality(InvocationsOn(f, "individual")) <= 1

\* a step never invokes the tool on an asset that has been verified, and
\* never verifies one again
NoSecondEvaluation ==
    /\ Len(write_log') > Len(write_log) =>
            \A k \in 1..Len(write_log'[Len(write_log')].files) :
                write_log'[Len(write_log')].files[k] \notin VerifiedFiles
    /\ Len(verify_log') > Len(verify_log) =>
            verify_log'[Len(verify_log')].file \notin VerifiedFiles

\* C22: an asset's embedding outcome is terminal within a run: it is
\* verified at most once, the tool is invoked on it at most once in batch
\* mode and at most once in individual mode, and after its verification,
\* failed or not, it is not invoked or verified again.
C22_OutcomeIsTerminal ==
    []AtMostOnceEach /\ [][NoSecondEvaluation]_vars

\* a finished run in which one batch fell back to individual invocations
\* and a file of a verified batch failed its verification
C22_Witness ==
    /\ pc = "done"
    /\ \E i \in 1..Len(verify_log) :
            /\ ~verify_log[i].verified
            /\ InvocationsOn(verify_log[i].file, "individual") = {}
    /\ \E f \in Range(paths) :
            /\ InvocationsOn(f, "batch") # {}
            /\ InvocationsOn(f, "individual") # {}
            /\ f \in VerifiedFiles

ClosestInterpretation ==
    Min(Abs(json_timestamp - embedded_date),
        Abs(json_timestamp + utc_offset - embedded_date))

\* C24: verify_timestamp_accuracy returns true, and the file is counted in
\* files_with_correct_dates, when the embedded date is at most 21600 seconds
\* from the sidecar timestamp read as UTC or as local time; otherwise it
\* returns false and records one timestamp_accuracy_issues entry; with the
\* timestamp or the embedded date missing it returns false and records none.
C24_AcceptsWithinSixHours ==
    accurate \notin {"idle", "pending"} =>
        IF json_timestamp = NoValue \/ embedded_date = NoValue
        THEN /\ accurate = "no"
             /\ verification_results.timestamp_accuracy_issues = 0
        ELSE IF ClosestInterpretation <= 21600
        THEN /\ accurate = "yes"
             /\ verification_results.files_with_correct_dates = 1
             /\ verification_results.timestamp_accuracy_issues = 0
        ELSE /\ accurate = "no"
             /\ verification_results.timestamp_accuracy_issues = 1

\* the sidecar the i-th asset resolves to under the name it was found with
SidecarBefore(i) == FindJsonMetadata(MediaFiles[i], DOMAIN sidecars)
ExtensionsChecked == pc \in {"batches", "report", "done"}

\* C25: extension correction preserves resolution: an asset that resolves to
\* a sidecar under its original name resolves to the same sidecar under the
\* name fix_file_extensions gives it, so it never ends among the unmapped
\* files for lack of a sidecar; and a rename never replaces another asset.
C25_RenameKeepsSidecar ==
    ExtensionsChecked =>
        /\ \A i \in 1..Len(paths) :
                SidecarBefore(i) # None =>
                    /\ SidecarOf(paths[i]) = SidecarBefore(i)
                    /\ paths[i] \notin Range(unmapped_files)
        /\ ~dry_run => Cardinality(on_disk) = Len(MediaFiles)

\* C26: in dry-run mode no media file is renamed, no writing invocation is
\* issued, nothing is copied to the output or the unmapped tree and no
\* report file is written; and every path the phases after the extension
\* check operate on is the path of a file that exists.
C26_DryRunChangesNothing ==
    dry_run =>
        /\ on_disk = Range(MediaFiles)
        /\ write_log = <<>>
        /\ copied_out = {}
        /\ copied_unmapped = {}
        /\ ~ReportWritten
        /\ ExtensionsChecked => Range(paths) \subseteq on_disk

\* the assets of the run for which find_json_metadata finds a sidecar
AssetsWithSidecar == {i \in 1..Len(paths) : SidecarOf(paths[i]) # None}

\* C27: at the end of a run json_matched is the number of assets for which
\* find_json_metadata found a sidecar, each counted once, whether the asset
\* went through a verified batch, the individual pass (its invocation
\* failing or not) or a dry run; and date_restored <= json_matched,
\* gps_restored <= json_matched <= total_files.
C27_JsonMatchedCountsEachAssetOnce ==
    RunOver =>
        /\ stats.json_matched = Cardinality(AssetsWithSidecar)
        /\ stats.date_restored <= stats.json_matched
        /\ stats.gps_restored <= stats.json_matched
        /\ stats.json_matched <= stats.total_files

\* C28: in the window at most one run is active at any time: from
\* start_processing until processing_complete or processing_error the
\* Process button stays disabled, whatever the user selects meanwhile.
C28_OneRunAtATime ==
    /\ ActiveRuns <= 1
    /\ ActiveRuns > 0 => process_button = "disabled"

\* C29: over one run the fractions passed to progress_callback never
\* decrease, each lies between 0 and 1, and 1.0 is passed only by the last
\* call of the completed run.
C29_ProgressNeverDecreases ==
    /\ \A i, j \in 1..Len(progress_log) :
            i < j => progress_log[i] <= progress_log[j]
    /\ \A i \in 1..Len(progress_log) :
            /\ 0 <= progress_log[i]
            /\ progress_log[i] <= 1000
            /\ progress_log[i] = 1000 =>
                    i = Len(progress_log) /\ status_point = Len(StatusCalls)

\* C30: after analyze_file_mappings the mapping_patterns counts sum to
\* total_media_files, every media file is counted in exactly one of direct
\* match, inherited or alternative match, photos_without_json, and
\* 0 <= unmappable_files = total_media_files - (direct_matches +
\* edited_with_original_json) = photos_without_json.
C30_MappingCountsPartition ==
    media_files = <<>> =>
        /\ analysis_results.direct_match
                + analysis_results.edited_inherits_from_original
                + analysis_results.alternative_pattern
                + analysis_results.no_json
           = analysis_results.total_media_files
        /\ analysis_results.direct_matches
                + analysis_results.edited_inherits_from_original
                + analysis_results.alternative_pattern
                + analysis_results.photos_without_json
           = analysis_results.total_media_files
        /\ 0 <= UnmappableFiles
        /\ UnmappableFiles = analysis_results.photos_without_json

====
